---- MODULE Spec2Model ----
(***************************************************************************)
(* A model of the PDF structure extractor: the font based classifier       *)
(* classify_items and the statistics aggregator                            *)
(* PDFExtractor._generate_statistics of file_parser.py.                    *)
(*                                                                         *)
(* Representation.                                                         *)
(*  - A Python str is a sequence of one-character strings.  The model's    *)
(*    alphabet has one or more members of every character class the code   *)
(*    distinguishes; "BULLET" stands for U+2022, the first glyph of the    *)
(*    bullet class.                                                        *)
(*  - A font size (a float in the source) is an integer number of          *)
(*    hundredths of a point: 1600 is 16.0 and 1599 is 15.99.               *)
(*  - An average rounded to 2 decimals is an integer number of hundredths: *)
(*    150 is 1.5.                                                          *)
(*  - A dict is a function; a missing key is a missing domain element.     *)
(*  - A raised exception is the value of the variable raised.              *)
(***************************************************************************)
EXTENDS Integers, Sequences, FiniteSets, TLC

VARIABLES
    pc,            \* "call" before the function under study runs, "return" after
    text,          \* classify_items: the argument text
    font_info,     \* classify_items: the argument font_info
    element_type,  \* classify_items: the returned ElementType value
    total_pages,   \* _generate_statistics: len(doc)
    elements,      \* _generate_statistics: the argument elements
    stats,         \* _generate_statistics: the returned DocumentStatistics
    raised,        \* the exception that ended the call, "none" if it returned
    doc,           \* the document as the renderer presents it: a list of pages
    calls,         \* the texts handed to classify_items by page extraction
    db,            \* DocumentStorage: the rows of the three tables
    fetched        \* what the last query of DocumentStorage returned

vars == <<pc, text, font_info, element_type, total_pages, elements, stats, raised,
          doc, calls, db, fetched>>

-----------------------------------------------------------------------------
(* Bounds of the model. *)

\* Longest leading part of a text that is enumerated character by character.
MaxPrefixLen == 3

\* Largest number of words appended to the enumerated leading part.
MaxTailWords == 21

\* Longest list of elements handed to the aggregator.
MaxElems == 2

\* Largest page count of a document, and largest page number of an element.
MaxPages == 3

\* Largest number of spans of a text block handed to page extraction.
MaxSpans == 2

\* Largest number of blocks of the page handed to page extraction.
MaxBlocks == 1

-----------------------------------------------------------------------------
(* Characters and strings. *)

\* The whitespace of str.strip, str.split and the regex class \s.
Whitespace == {" ", "\t", "\n"}

\* The regex class [•·▪▫‣⁃].
BulletChars == {"BULLET", "MIDDLE_DOT", "BLACK_SMALL_SQUARE", "WHITE_SMALL_SQUARE",
                "TRIANGULAR_BULLET", "HYPHEN_BULLET"}

\* The regex class \d.
Digits == {"0", "1", "2", "3", "4", "5", "6", "7", "8", "9"}

\* The regex class [a-zA-Z].
Letters == {"a", "b", "c", "d", "e", "f", "g", "h", "i", "j", "k", "l", "m",
            "n", "o", "p", "q", "r", "s", "t", "u", "v", "w", "x", "y", "z",
            "A", "B", "C", "D", "E", "F", "G", "H", "I", "J", "K", "L", "M",
            "N", "O", "P", "Q", "R", "S", "T", "U", "V", "W", "X", "Y", "Z"}

\* The regex class [\.\)].
MarkerEnd == {".", ")"}

\* The regex class [-\*\+].
DashChars == {"-", "*", "+"}

\* The number of leading characters of s that belong to class.
RECURSIVE LeadLen(_, _)
LeadLen(s, class) ==
    IF s = <<>> \/ Head(s) \notin class THEN 0
    ELSE 1 + LeadLen(Tail(s), class)

\* s without its first n characters.
Drop(s, n) == SubSeq(s, n + 1, Len(s))

\* The number of trailing characters of s that belong to class.
RECURSIVE TrailLen(_, _)
TrailLen(s, class) ==
    IF s = <<>> \/ s[Len(s)] \notin class THEN 0
    ELSE 1 + TrailLen(SubSeq(s, 1, Len(s) - 1), class)

\* str.strip(): leading and trailing whitespace removed.
strip(s) ==
    LET t == Drop(s, LeadLen(s, Whitespace))
    IN  SubSeq(t, 1, Len(t) - TrailLen(t, Whitespace))

\* The number of leading non-whitespace characters of s.
RECURSIVE TokenLen(_)
TokenLen(s) ==
    IF s = <<>> \/ Head(s) \in Whitespace THEN 0
    ELSE 1 + TokenLen(Tail(s))

\* str.split(): the maximal runs of non-whitespace characters, in order.
RECURSIVE split(_)
split(s) ==
    IF s = <<>> THEN <<>>
    ELSE IF Head(s) \in Whitespace THEN split(Tail(s))
    ELSE <<SubSeq(s, 1, TokenLen(s))>> \o split(Drop(s, TokenLen(s)))

-----------------------------------------------------------------------------
(* classify_items. *)

\* The values of the enumeration ElementType.
ElementType == {"title", "subtitle", "section", "paragraph", "list_item",
                "table", "image"}

\* re.match(r'^\s*[•·▪▫‣⁃]\s+', s)
match_bullet(s) ==
    LET r == Drop(s, LeadLen(s, Whitespace))
    IN  /\ Len(r) >= 2
        /\ r[1] \in BulletChars
        /\ r[2] \in Whitespace

\* re.match(r'^\s*\d+[\.\)]\s+', s): \d+ is greedy and no digit is in
\* [\.\)], so the only candidate split is after the last leading digit.
match_numbered(s) ==
    LET r == Drop(s, LeadLen(s, Whitespace))
        d == LeadLen(r, Digits)
    IN  /\ d >= 1
        /\ Len(r) >= d + 2
        /\ r[d + 1] \in MarkerEnd
        /\ r[d + 2] \in Whitespace

\* re.match(r'^\s*[a-zA-Z][\.\)]\s+', s)
match_lettered(s) ==
    LET r == Drop(s, LeadLen(s, Whitespace))
    IN  /\ Len(r) >= 3
        /\ r[1] \in Letters
        /\ r[2] \in MarkerEnd
        /\ r[3] \in Whitespace

\* re.match(r'^\s*[-\*\+]\s+', s)
match_dash(s) ==
    LET r == Drop(s, LeadLen(s, Whitespace))
    IN  /\ Len(r) >= 2
        /\ r[1] \in DashChars
        /\ r[2] \in Whitespace

\* list_patterns with the dash pattern left out of the list.
list_patterns_without_dash(text_stripped) ==
    \/ match_bullet(text_stripped)
    \/ match_numbered(text_stripped)
    \/ match_lettered(text_stripped)

\* any(re.match(pattern, text_stripped) for pattern in list_patterns)
list_patterns(text_stripped) ==
    \/ match_bullet(text_stripped)
    \/ match_numbered(text_stripped)
    \/ match_lettered(text_stripped)
    \/ match_dash(text_stripped)

\* bool(flags & 16): bit 4 of the two's complement integer flags.
is_bold(flags) == (flags \div 16) % 2 = 1

\* font_rule with the title threshold exclusive (size > 16).
font_rule_title_exclusive(size, bold, word_count) ==
    IF size > 1600 /\ bold THEN "title"
    ELSE IF size >= 1400 /\ (bold \/ word_count <= 10) THEN "subtitle"
    ELSE IF size >= 1000 /\ word_count <= 20 THEN "section"
    ELSE "paragraph"

\* font_rule with the subtitle word limit exclusive (word_count < 10).
font_rule_subtitle_exclusive(size, bold, word_count) ==
    IF size >= 1600 /\ bold THEN "title"
    ELSE IF size >= 1400 /\ (bold \/ word_count < 10) THEN "subtitle"
    ELSE IF size >= 1000 /\ word_count <= 20 THEN "section"
    ELSE "paragraph"

\* font_rule with the section word limit exclusive (word_count < 20).
font_rule_section_exclusive(size, bold, word_count) ==
    IF size >= 1600 /\ bold THEN "title"
    ELSE IF size >= 1400 /\ (bold \/ word_count <= 10) THEN "subtitle"
    ELSE IF size >= 1000 /\ word_count < 20 THEN "section"
    ELSE "paragraph"

\* The font-size based classification, the if/elif chain that ends classify_items.
font_rule(size, bold, word_count) ==
    IF size >= 1600 /\ bold THEN "title"
    ELSE IF size >= 1400 /\ (bold \/ word_count <= 10) THEN "subtitle"
    ELSE IF size >= 1000 /\ word_count <= 20 THEN "section"
    ELSE "paragraph"

\* classify_items(text, font_info): the returned value, or the exception raised
\* by the first subscript of a missing key, in the order the code evaluates them.
classify_items(t, f) ==
    LET text_stripped == strip(t)
        word_count == Len(split(text_stripped))
    IN  IF "flags" \notin DOMAIN f
        THEN [raised |-> "KeyError", value |-> "none"]
        ELSE IF list_patterns(text_stripped)
        THEN [raised |-> "none", value |-> "list_item"]
        ELSE IF "size" \notin DOMAIN f
        THEN [raised |-> "KeyError", value |-> "none"]
        ELSE [raised |-> "none", value |-> font_rule(f["size"], is_bold(f["flags"]), word_count)]

-----------------------------------------------------------------------------
(* The inputs of classify_items. *)

\* A character of every class the classifier tells apart: whitespace (a newline
\* here, a space between the appended words), a digit, a letter, both marker
\* ends, a dash and a bullet.
Alphabet == {"\n", "1", "a", ".", ")", "-", "BULLET"}

\* The strings over Alphabet of length at most MaxPrefixLen.
Prefixes == UNION {[1..n -> Alphabet] : n \in 0..MaxPrefixLen}

\* The numbers of words appended to a prefix: up to one word past the
\* threshold 20 of the classifier, a prefix itself holding 0 to 2 words.
TailWords == 0..MaxTailWords

\* n words, each preceded by one space.
RECURSIVE Words(_)
Words(n) == IF n = 0 THEN <<>> ELSE <<" ", "w">> \o Words(n - 1)

\* The texts handed to the classifier.
Texts == {p \o Words(n) : p \in Prefixes, n \in TailWords}

\* Font sizes on both sides of the thresholds 10, 14 and 16, in hundredths.
Sizes == {999, 1000, 1399, 1400, 1599, 1600}

\* Font flags: bit 4 (16, bold) and bit 2 (4, serif), set and clear.
FlagValues == {0, 4, 16, 20}

\* The font-info records that extraction builds from a span.
WellFormedFonts ==
    {[name |-> "Helvetica", size |-> z, flags |-> g] : z \in Sizes, g \in FlagValues}

\* Font-info records that lack 'size', 'flags' or both.
MalformedFonts ==
    {[name |-> "Helvetica", flags |-> g] : g \in {0, 16}}
        \cup {[name |-> "Helvetica", size |-> z] : z \in {1000, 1600}}
        \cup {[name |-> "Helvetica"]}

FontInfos == WellFormedFonts \cup MalformedFonts

\* The tables of a new database: _create_tables.
EmptyDb == [documents |-> <<>>, elements |-> <<>>, document_statistics |-> <<>>]

\* The variable fetched before any query.
NothingFetched == [query |-> "none"]

\* The statistics variable before _generate_statistics has returned.
NoStats == [title_count |-> 0, section_count |-> 0, table_count |-> 0,
            image_count |-> 0, avg_text_density_per_page |-> 0,
            avg_hierarchical_depth |-> 0, avg_paragraph_length |-> 0,
            section_distribution |-> <<>>]

-----------------------------------------------------------------------------
(* The classifier applied to one input. *)

InitClassify ==
    /\ pc = "call"
    /\ text \in Texts
    /\ font_info \in FontInfos
    /\ element_type = "none"
    /\ raised = "none"
    /\ total_pages = 1
    /\ elements = <<>>
    /\ stats = NoStats
    /\ doc = <<>>
    /\ calls = <<>>
    /\ db = EmptyDb
    /\ fetched = NothingFetched

\* One call of classify_items(text, font_info).
ClassifyItems ==
    /\ pc = "call"
    /\ element_type' = classify_items(text, font_info).value
    /\ raised' = classify_items(text, font_info).raised
    /\ pc' = "return"
    /\ UNCHANGED <<text, font_info, total_pages, elements, stats, doc, calls, db, fetched>>

NextClassify == ClassifyItems

SpecClassify == InitClassify /\ [][NextClassify]_vars

-----------------------------------------------------------------------------
(* _generate_statistics. *)

\* The sum of a sequence of integers: sum(...) over a list.
RECURSIVE SumSeq(_)
SumSeq(s) == IF s = <<>> THEN 0 ELSE Head(s) + SumSeq(Tail(s))

\* The sum of the values of the dict f: sum(f.values()).
RECURSIVE SumValues(_)
SumValues(f) ==
    IF DOMAIN f = {} THEN 0
    ELSE LET k == CHOOSE x \in DOMAIN f : TRUE
         IN  f[k] + SumValues([x \in DOMAIN f \ {k} |-> f[x]])

\* round(num / den, 2) in hundredths, for den > 0 and num >= 0.  Python divides
\* to the nearest double and rounds that double half-to-even on its exact
\* value.  A quotient num/den is a tie (an odd multiple of 1/200) only when the
\* reduced denominator is 8, 40 or 200; below 40 a tie is therefore a multiple
\* of 1/8, which a double holds exactly, and every other quotient lies much
\* further than one unit in the last place from a tie: rounding the exact
\* rational half-to-even is what the code computes for every den < 40.
Round2(num, den) ==
    LET q == (100 * num) \div den
        r == (100 * num) % den
    IN  IF 2 * r < den THEN q
        ELSE IF 2 * r > den THEN q + 1
        ELSE IF q % 2 = 0 THEN q ELSE q + 1

\* element_counts tallying by substring, so that "title" also counts "subtitle".
element_counts_by_substring(elems, t) ==
    Cardinality({i \in 1..Len(elems) :
                    \/ elems[i].element_type = t
                    \/ t = "title" /\ elems[i].element_type = "subtitle"})

\* element_counts.get(t, 0): Counter(elem.element_type.value for elem in elements).
element_counts(elems, t) ==
    Cardinality({i \in 1..Len(elems) : elems[i].element_type = t})

\* The list text_density_per_page: for page_num in range(1, total_pages + 1),
\* the summed len(e.content) of the elements with that page_number.
text_density_per_page(n, elems) ==
    [page_num \in 1..n |->
        LET page_elements == SelectSeq(elems, LAMBDA e : e.page_number = page_num)
        IN  SumSeq([i \in 1..Len(page_elements) |-> Len(page_elements[i].content)])]

\* avg_text_density_per_page averaged over the pages that hold content, the way
\* avg_hierarchical_depth averages over the pages that hold a heading.
avg_text_density_over_nonempty_pages(n, elems) ==
    LET lengths == text_density_per_page(n, elems)
        nonempty == Cardinality({p \in 1..n : lengths[p] > 0})
    IN  IF nonempty = 0 THEN 0 ELSE Round2(SumSeq(lengths), nonempty)

\* avg_text_density_per_page, for a non-empty list text_density_per_page.
avg_text_density_per_page(n, elems) ==
    Round2(SumSeq(text_density_per_page(n, elems)), Len(text_density_per_page(n, elems)))

\* The dict hierarchical_counts_per_page: page_number -> number of title,
\* subtitle and section elements, for the pages that hold one.
hierarchical_counts_per_page(elems) ==
    LET hierarchical_elements ==
            SelectSeq(elems, LAMBDA e : e.element_type \in {"title", "subtitle", "section"})
    IN  [p \in {hierarchical_elements[i].page_number : i \in 1..Len(hierarchical_elements)} |->
            Cardinality({i \in 1..Len(hierarchical_elements) :
                            hierarchical_elements[i].page_number = p})]

\* avg_hierarchical_depth with subtitle left out of the hierarchical types.
avg_hierarchical_depth_without_subtitle(elems) ==
    LET counts == hierarchical_counts_per_page(
                      SelectSeq(elems, LAMBDA e : e.element_type # "subtitle"))
    IN  IF Cardinality(DOMAIN counts) # 0
        THEN Round2(SumValues(counts), Cardinality(DOMAIN counts))
        ELSE 0

\* avg_hierarchical_depth: 0 unless the dict has a key.
avg_hierarchical_depth(elems) ==
    LET counts == hierarchical_counts_per_page(elems)
    IN  IF Cardinality(DOMAIN counts) # 0
        THEN Round2(SumValues(counts), Cardinality(DOMAIN counts))
        ELSE 0

\* avg_paragraph_length measuring len(p.content), characters instead of words.
avg_paragraph_length_in_characters(elems) ==
    LET paragraphs == SelectSeq(elems, LAMBDA e : e.element_type = "paragraph")
    IN  IF paragraphs # <<>>
        THEN Round2(SumSeq([i \in 1..Len(paragraphs) |-> Len(paragraphs[i].content)]),
                    Len(paragraphs))
        ELSE 0

\* avg_paragraph_length: the mean of len(p.content.split()) over the paragraphs,
\* 0 if there is none.
avg_paragraph_length(elems) ==
    LET paragraphs == SelectSeq(elems, LAMBDA e : e.element_type = "paragraph")
    IN  IF paragraphs # <<>>
        THEN Round2(SumSeq([i \in 1..Len(paragraphs) |-> Len(split(paragraphs[i].content))]),
                    Len(paragraphs))
        ELSE 0

\* section_distribution touched for every element, adding 1 only for a section:
\* a page whose elements are not sections gets a key with the value 0.
section_distribution_dense(elems) ==
    [p \in {elems[i].page_number : i \in 1..Len(elems)} |->
        Cardinality({i \in 1..Len(elems) :
                        elems[i].element_type = "section" /\ elems[i].page_number = p})]

\* dict(section_distribution): page_number -> number of section elements.
section_distribution(elems) ==
    [p \in {elems[i].page_number : i \in {j \in 1..Len(elems) : elems[j].element_type = "section"}} |->
        Cardinality({i \in 1..Len(elems) :
                        elems[i].element_type = "section" /\ elems[i].page_number = p})]

\* _generate_statistics with the paragraph average divided without its guard:
\* a list with no paragraph raises as a document with no page does.
generate_statistics_unguarded_paragraphs(n, elems) ==
    IF \/ Len(text_density_per_page(n, elems)) = 0
       \/ SelectSeq(elems, LAMBDA e : e.element_type = "paragraph") = <<>>
    THEN [raised |-> "ZeroDivisionError", value |-> NoStats]
    ELSE [raised |-> "none",
          value |-> [title_count |-> element_counts(elems, "title"),
                     section_count |-> element_counts(elems, "section"),
                     table_count |-> element_counts(elems, "table"),
                     image_count |-> element_counts(elems, "image"),
                     avg_text_density_per_page |-> avg_text_density_per_page(n, elems),
                     avg_hierarchical_depth |-> avg_hierarchical_depth(elems),
                     avg_paragraph_length |-> avg_paragraph_length(elems),
                     section_distribution |-> section_distribution(elems)]]

\* _generate_statistics(doc, elements) with len(doc) = n: the DocumentStatistics
\* returned, or the exception raised.  The only division with no guard is the
\* one by len(text_density_per_page), which is n.
generate_statistics(n, elems) ==
    IF Len(text_density_per_page(n, elems)) = 0
    THEN [raised |-> "ZeroDivisionError", value |-> NoStats]
    ELSE [raised |-> "none",
          value |-> [title_count |-> element_counts(elems, "title"),
                     section_count |-> element_counts(elems, "section"),
                     table_count |-> element_counts(elems, "table"),
                     image_count |-> element_counts(elems, "image"),
                     avg_text_density_per_page |-> avg_text_density_per_page(n, elems),
                     avg_hierarchical_depth |-> avg_hierarchical_depth(elems),
                     avg_paragraph_length |-> avg_paragraph_length(elems),
                     section_distribution |-> section_distribution(elems)]]

-----------------------------------------------------------------------------
(* The inputs of _generate_statistics. *)

\* Element contents: one word of one character, and two words separated by a
\* space and a tab (4 characters).
Contents == {<<"a">>, <<"a", " ", "\t", "b">>}

\* The fields of a DocumentElement that the aggregator reads.
StatElements == [element_type : ElementType, content : Contents, page_number : 1..MaxPages]

\* The element lists of length at most MaxElems.
ElementLists == UNION {[1..n -> StatElements] : n \in 0..MaxElems}

InitStats ==
    /\ pc = "call"
    /\ total_pages \in 0..MaxPages
    /\ elements \in ElementLists
    /\ stats = NoStats
    /\ raised = "none"
    /\ text = <<>>
    /\ font_info = [name |-> "Helvetica", size |-> 1000, flags |-> 0]
    /\ element_type = "none"
    /\ doc = <<>>
    /\ calls = <<>>
    /\ db = EmptyDb
    /\ fetched = NothingFetched

\* One call of _generate_statistics(doc, elements).
GenerateStatistics ==
    /\ pc = "call"
    /\ stats' = generate_statistics(total_pages, elements).value
    /\ raised' = generate_statistics(total_pages, elements).raised
    /\ pc' = "return"
    /\ UNCHANGED <<text, font_info, element_type, total_pages, elements, doc, calls,
                   db, fetched>>

NextStats == GenerateStatistics

SpecStats == InitStats /\ [][NextStats]_vars

-----------------------------------------------------------------------------
(* Properties of classify_items, checked under SpecClassify. *)

\* s starts with a list marker followed by whitespace: one bullet glyph, one of
\* - * +, one letter and a marker end, or one or more digits and a marker end.
StartsWithListMarker(s) ==
    \E k \in 1..(Len(s) - 1) :
        /\ s[k + 1] \in Whitespace
        /\ \/ k = 1 /\ s[1] \in BulletChars \cup DashChars
           \/ k = 2 /\ s[1] \in Letters /\ s[2] \in MarkerEnd
           \/ k >= 2 /\ s[k] \in MarkerEnd /\ \A i \in 1..(k - 1) : s[i] \in Digits

\* The number of whitespace-delimited words of s: the positions where a word starts.
WordCount(s) ==
    Cardinality({i \in 1..Len(s) :
                    s[i] \notin Whitespace /\ (i = 1 \/ s[i - 1] \in Whitespace)})

\* The bold bit of a non-negative flags value: flags & 16 != 0.
BoldBit(flags) == flags % 32 >= 16

\* classify_items has ended on a font-info record that holds size and flags.
ClassifiedWellFormed == pc = "return" /\ font_info \in WellFormedFonts

\* The title rule: size >= 16 and bold.
TitleRule == font_info["size"] >= 1600 /\ BoldBit(font_info["flags"])

\* The subtitle rule: size >= 14 and (bold or at most 10 words).
SubtitleRule ==
    /\ font_info["size"] >= 1400
    /\ (BoldBit(font_info["flags"]) \/ WordCount(strip(text)) <= 10)

\* C1: a text whose trimmed form starts with a list marker is a list_item for
\* every font size and every flags value.
ListMarkerTakesPrecedence ==
    (ClassifiedWellFormed /\ StartsWithListMarker(strip(text)))
        => (raised = "none" /\ element_type = "list_item")

\* C1 witness: a numbered marker of two digits in a bold font of size 16, which
\* the title rule would have taken, came back as list_item.
ListMarkerInTitleFont ==
    /\ ClassifiedWellFormed
    /\ Len(text) >= 4
    /\ SubSeq(text, 1, 4) = <<"1", "1", ")", " ">>
    /\ TitleRule
    /\ element_type = "list_item"

\* C2: a text with no list marker in a bold font of size >= 16 is a title,
\* whatever its word count.
BoldLargeIsTitle ==
    (ClassifiedWellFormed /\ ~StartsWithListMarker(strip(text)) /\ TitleRule)
        => (raised = "none" /\ element_type = "title")

\* C2 witness: size exactly 16, bold, more than 20 words, classified title.
TitleAtExactly16 ==
    /\ ClassifiedWellFormed
    /\ font_info["size"] = 1600
    /\ BoldBit(font_info["flags"])
    /\ WordCount(strip(text)) > 20
    /\ element_type = "title"

\* C3: with no list marker and the title rule not met, the result is subtitle
\* exactly when size >= 14 and (bold or at most 10 words).
SubtitleExactlyWhenRule ==
    (ClassifiedWellFormed /\ ~StartsWithListMarker(strip(text)) /\ ~TitleRule)
        => (raised = "none" /\ (element_type = "subtitle" <=> SubtitleRule))

\* C3 witness: a bold font of size 15.99 with 5 words is a subtitle.
SubtitleJustBelow16 ==
    /\ ClassifiedWellFormed
    /\ font_info["size"] = 1599
    /\ BoldBit(font_info["flags"])
    /\ WordCount(strip(text)) = 5
    /\ ~StartsWithListMarker(strip(text))
    /\ element_type = "subtitle"

\* C4: with no list marker and neither the title nor the subtitle rule met, the
\* result is section when size >= 10 and there are at most 20 words, paragraph
\* otherwise; every well-formed input gets one of the five text types.
SectionElseParagraph ==
    ClassifiedWellFormed
        => /\ raised = "none"
           /\ element_type \in {"title", "subtitle", "section", "paragraph", "list_item"}
           /\ (~StartsWithListMarker(strip(text)) /\ ~TitleRule /\ ~SubtitleRule)
                 => element_type =
                        IF font_info["size"] >= 1000 /\ WordCount(strip(text)) <= 20
                        THEN "section" ELSE "paragraph"

\* C4 witness: a non-bold font of size >= 14 with exactly 20 words is a section.
LargeNonBoldTwentyWords ==
    /\ ClassifiedWellFormed
    /\ font_info["size"] >= 1400
    /\ ~BoldBit(font_info["flags"])
    /\ WordCount(strip(text)) = 20
    /\ ~StartsWithListMarker(strip(text))
    /\ element_type = "section"

\* C6: a font-info record that lacks 'size' or 'flags' ends the call in an
\* InvalidInput error, for every text.
MalformedFontIsInvalidInput ==
    (pc = "return" /\ font_info \in MalformedFonts) => raised = "InvalidInput"

-----------------------------------------------------------------------------
(* Properties of _generate_statistics, checked under SpecStats. *)

\* r hundredths is num / den rounded to 2 decimals: within half a hundredth.
IsRounded2(r, num, den) ==
    LET diff == r * den - 100 * num
    IN  2 * (IF diff < 0 THEN -diff ELSE diff) <= den

\* The positions of the elements whose type is in types.
Positions(types) == {i \in 1..Len(elements) : elements[i].element_type \in types}

\* The total content length, in characters, of the elements at the positions in I.
RECURSIVE TotalLength(_)
TotalLength(I) ==
    IF I = {} THEN 0
    ELSE LET i == CHOOSE x \in I : TRUE
         IN  Len(elements[i].content) + TotalLength(I \ {i})

\* The total number of words in the content of the elements at the positions in I.
RECURSIVE TotalWords(_)
TotalWords(I) ==
    IF I = {} THEN 0
    ELSE LET i == CHOOSE x \in I : TRUE
         IN  WordCount(elements[i].content) + TotalWords(I \ {i})

\* C5: a page count below 1 ends the call in an InvalidInput error, for every
\* element list.
NoPagesIsInvalidInput ==
    (pc = "return" /\ total_pages < 1) => raised = "InvalidInput"

\* C7: with at least one page and no element the call returns, every count and
\* every average is 0 and section_distribution is empty.
EmptyListGivesZeros ==
    (pc = "return" /\ total_pages >= 1 /\ elements = <<>>)
        => /\ raised = "none"
           /\ stats.title_count = 0
           /\ stats.section_count = 0
           /\ stats.table_count = 0
           /\ stats.image_count = 0
           /\ stats.avg_text_density_per_page = 0
           /\ stats.avg_hierarchical_depth = 0
           /\ stats.avg_paragraph_length = 0
           /\ DOMAIN stats.section_distribution = {}

\* C7 witness: the call over 3 pages and no element has returned.
EmptyListOverThreePages ==
    pc = "return" /\ total_pages = 3 /\ elements = <<>> /\ raised = "none"

\* C8: avg_text_density_per_page is the total content length of the elements
\* of every type on the pages 1..N, divided by N, rounded to 2 decimals.
DensityAveragesOverAllPages ==
    (pc = "return" /\ total_pages >= 1)
        => /\ raised = "none"
           /\ IsRounded2(stats.avg_text_density_per_page,
                         TotalLength({i \in 1..Len(elements) :
                                          elements[i].page_number \in 1..total_pages}),
                         total_pages)

\* C8 witness: 3 pages, 5 characters on one page in two elements of different
\* types, two pages with no element: the density is 1.67.
DensityWithEmptyPages ==
    /\ pc = "return"
    /\ total_pages = 3
    /\ Len(elements) = 2
    /\ elements[1].page_number = 2
    /\ elements[2].page_number = 2
    /\ elements[1].element_type = "image"
    /\ elements[2].element_type = "list_item"
    /\ Len(elements[1].content) + Len(elements[2].content) = 5
    /\ stats.avg_text_density_per_page = 167

\* C9: avg_hierarchical_depth is the number of title, subtitle and section
\* elements divided by the number of distinct pages that hold one, rounded to
\* 2 decimals, whatever the page count; it is 0 when there is none.
DepthAveragesOverHeadingPages ==
    (pc = "return" /\ raised = "none")
        => LET H == Positions({"title", "subtitle", "section"})
               P == {elements[i].page_number : i \in H}
           IN  IF H = {} THEN stats.avg_hierarchical_depth = 0
               ELSE IsRounded2(stats.avg_hierarchical_depth,
                               Cardinality(H), Cardinality(P))

\* C9 witness: a subtitle and a section on the same page of a 3-page document
\* give the depth 2.
TwoHeadingsOnOnePage ==
    /\ pc = "return"
    /\ raised = "none"
    /\ total_pages = 3
    /\ Len(elements) = 2
    /\ elements[1].element_type = "subtitle"
    /\ elements[2].element_type = "section"
    /\ elements[1].page_number = elements[2].page_number
    /\ stats.avg_hierarchical_depth = 200

\* C10: avg_paragraph_length is the number of whitespace-delimited words of the
\* paragraph elements divided by the number of paragraph elements, rounded to
\* 2 decimals; it is 0 when there is no paragraph.
ParagraphLengthAveragesWords ==
    (pc = "return" /\ raised = "none")
        => LET Q == Positions({"paragraph"})
           IN  IF Q = {} THEN stats.avg_paragraph_length = 0
               ELSE IsRounded2(stats.avg_paragraph_length,
                               TotalWords(Q), Cardinality(Q))

\* C10 witness: a paragraph of 1 word and a paragraph of 2 words average 1.5.
TwoParagraphsAverage ==
    /\ pc = "return"
    /\ raised = "none"
    /\ Positions({"paragraph"}) = {1, 2}
    /\ WordCount(elements[1].content) = 1
    /\ WordCount(elements[2].content) = 2
    /\ stats.avg_paragraph_length = 150

\* C11: title_count, section_count, table_count and image_count are the numbers
\* of elements carrying exactly that type; subtitle, paragraph and list_item
\* elements are in none of them.
CountsTallyTrackedTypes ==
    (pc = "return" /\ raised = "none")
        => /\ stats.title_count = Cardinality(Positions({"title"}))
           /\ stats.section_count = Cardinality(Positions({"section"}))
           /\ stats.table_count = Cardinality(Positions({"table"}))
           /\ stats.image_count = Cardinality(Positions({"image"}))
           /\ stats.title_count + stats.section_count + stats.table_count + stats.image_count
                 = Len(elements) - Cardinality(Positions({"subtitle", "paragraph", "list_item"}))

\* C11 witness: a title next to a subtitle is counted once, and no other count moves.
TitleBesideSubtitle ==
    /\ pc = "return"
    /\ raised = "none"
    /\ Len(elements) = 2
    /\ elements[1].element_type = "title"
    /\ elements[2].element_type = "subtitle"
    /\ stats.title_count = 1
    /\ stats.section_count = 0

\* The total of the values of the dict f over the keys in S.
RECURSIVE ValuesTotal(_, _)
ValuesTotal(f, S) ==
    IF S = {} THEN 0
    ELSE LET k == CHOOSE x \in S : TRUE
         IN  f[k] + ValuesTotal(f, S \ {k})

\* C12: the keys of section_distribution are exactly the pages that hold a
\* section, each mapped to its number of sections (never 0), and the values sum
\* to section_count.
SectionDistributionIsSparse ==
    (pc = "return" /\ raised = "none")
        => LET S == Positions({"section"})
               d == stats.section_distribution
           IN  /\ DOMAIN d = {elements[i].page_number : i \in S}
               /\ \A p \in DOMAIN d :
                     /\ d[p] = Cardinality({i \in S : elements[i].page_number = p})
                     /\ d[p] # 0
               /\ ValuesTotal(d, DOMAIN d) = stats.section_count

\* C12 witness: a paragraph on page 1 and a section on page 2 give {2: 1}.
SectionOnSecondPageOnly ==
    /\ pc = "return"
    /\ raised = "none"
    /\ Len(elements) = 2
    /\ elements[1].element_type = "paragraph"
    /\ elements[1].page_number = 1
    /\ elements[2].element_type = "section"
    /\ elements[2].page_number = 2
    /\ DOMAIN stats.section_distribution = {2}
    /\ stats.section_distribution[2] = 1

-----------------------------------------------------------------------------
(* _extract_page_elements.                                                 *)
(*                                                                         *)
(* A page is what the renderer returns for it: blocks, the list            *)
(* page.get_text("dict")["blocks"]; images, the bounding boxes of          *)
(* page.get_images(); tables, the bbox and the cell grid of every table of *)
(* page.find_tables().  A coordinate is an integer number of               *)
(* hundred-thousandths of a point, so that round(x, 4) has digits to drop. *)

\* s with every occurrence of the character old replaced by the string new:
\* str.replace(old, new) for a one-character old.
RECURSIVE replace(_, _, _)
replace(s, old, new) ==
    IF s = <<>> THEN <<>>
    ELSE (IF Head(s) = old THEN new ELSE <<Head(s)>>) \o replace(Tail(s), old, new)

\* One decimal digit as a character.
DigitChar(d) == CASE d = 0 -> "0" [] d = 1 -> "1" [] d = 2 -> "2" [] d = 3 -> "3"
                  [] d = 4 -> "4" [] d = 5 -> "5" [] d = 6 -> "6" [] d = 7 -> "7"
                  [] d = 8 -> "8" [] d = 9 -> "9"

\* str(n) of an integer n >= 0, as in an f-string and in a JSON object key.
RECURSIVE str(_)
str(n) == IF n < 10 THEN <<DigitChar(n)>> ELSE str(n \div 10) \o <<DigitChar(n % 10)>>

\* round(x, 4) of a coordinate: the nearest multiple of 10 hundred-thousandths
\* (half-to-even on the exact value; the inputs of the model hold no tie).
round4(x) ==
    LET q == x \div 10
        r == x % 10
    IN  IF r < 5 THEN 10 * q
        ELSE IF r > 5 THEN 10 * (q + 1)
        ELSE IF q % 2 = 0 THEN 10 * q ELSE 10 * (q + 1)

\* The spans of a block in emission order: for line in block["lines"]:
\* for span in line["spans"].
RECURSIVE block_spans(_)
block_spans(lines) ==
    IF lines = <<>> THEN <<>> ELSE Head(lines).spans \o block_spans(Tail(lines))

\* text_content: the span texts concatenated in emission order.
RECURSIVE text_content(_)
text_content(spans) ==
    IF spans = <<>> THEN <<>> ELSE Head(spans).text \o text_content(Tail(spans))

\* font_info as the span loop leaves it: {} with no span, else the font name,
\* size and flags of the first span.
first_font_info(spans) ==
    IF spans = <<>> THEN <<>>
    ELSE [name |-> Head(spans).font, size |-> Head(spans).size, flags |-> Head(spans).flags]

\* The content stored for a text block:
\* text_content.strip().replace("\n", " ").replace("\t", "").
stored_content(t) == replace(replace(strip(t), "\n", <<" ">>), "\t", <<>>)

\* The DocumentElement built for one text block.
text_element(block, page_number) ==
    LET spans == block_spans(block.lines)
    IN  [element_type |-> classify_items(text_content(spans), first_font_info(spans)).value,
         content |-> stored_content(text_content(spans)),
         page_number |-> page_number,
         position |-> [x0 |-> round4(block.bbox[1]), y0 |-> round4(block.bbox[2]),
                       x1 |-> round4(block.bbox[3]), y1 |-> round4(block.bbox[4])],
         font_info |-> first_font_info(spans)]

\* is_text_block testing the raw text (if not text_content) instead of the
\* stripped text.
is_text_block_unstripped(block) ==
    /\ "lines" \in DOMAIN block
    /\ text_content(block_spans(block.lines)) # <<>>

\* A block yields an element: it has the key "lines" and its text is not empty
\* or whitespace-only.
is_text_block(block) ==
    /\ "lines" \in DOMAIN block
    /\ strip(text_content(block_spans(block.lines))) # <<>>

\* The loop over blocks.get("blocks", []): the text elements, in block order.
RECURSIVE text_elements(_, _)
text_elements(blocks, page_number) ==
    IF blocks = <<>> THEN <<>>
    ELSE (IF is_text_block(Head(blocks))
          THEN <<text_element(Head(blocks), page_number)>> ELSE <<>>)
         \o text_elements(Tail(blocks), page_number)

\* The texts handed to classify_items by the loop over the blocks, in order.
RECURSIVE classified_texts(_)
classified_texts(blocks) ==
    IF blocks = <<>> THEN <<>>
    ELSE (IF is_text_block(Head(blocks))
          THEN <<text_content(block_spans(Head(blocks).lines))>> ELSE <<>>)
         \o classified_texts(Tail(blocks))

\* The loop over enumerate(image_list): one image element per image, its
\* content f"Image_{page_number}_{img_index}", its position the raw rectangle.
image_elements(images, page_number) ==
    [img_index \in 1..Len(images) |->
        [element_type |-> "image",
         content |-> <<"I", "m", "a", "g", "e", "_">> \o str(page_number)
                        \o <<"_">> \o str(img_index - 1),
         page_number |-> page_number,
         position |-> [x0 |-> images[img_index][1], y0 |-> images[img_index][2],
                       x1 |-> images[img_index][3], y1 |-> images[img_index][4]],
         font_info |-> <<>>]]

\* The cell value None of table.extract(), distinct from every str.
NoneCell == <<"None">>

\* sep.join(parts) for a list of strings.
RECURSIVE join(_, _)
join(sep, parts) ==
    IF parts = <<>> THEN <<>>
    ELSE IF Len(parts) = 1 THEN Head(parts)
    ELSE Head(parts) \o sep \o join(sep, Tail(parts))

\* table_text: '\n'.join('\t'.join(row)) over the rows with None cells as ''.
table_text(table_data) ==
    join(<<"\n">>,
         [r \in 1..Len(table_data) |->
            join(<<"\t">>,
                 [c \in 1..Len(table_data[r]) |->
                    IF table_data[r][c] = NoneCell THEN <<>> ELSE table_data[r][c]])])

\* The loop over enumerate(tables): one table element per table.
table_elements(tables, page_number) ==
    [table_index \in 1..Len(tables) |->
        [element_type |-> "table",
         content |-> table_text(tables[table_index].cells),
         page_number |-> page_number,
         position |-> [x0 |-> tables[table_index].bbox[1], y0 |-> tables[table_index].bbox[2],
                       x1 |-> tables[table_index].bbox[3], y1 |-> tables[table_index].bbox[4]],
         font_info |-> <<>>]]

\* _extract_page_elements(page, page_number): the text elements, then the
\* images, then the tables.
extract_page_elements(page, page_number) ==
    text_elements(page.blocks, page_number)
        \o image_elements(page.images, page_number)
        \o table_elements(page.tables, page_number)

-----------------------------------------------------------------------------
(* The inputs of _extract_page_elements, and one call of it. *)

\* Span texts: whitespace only, a word, a dash followed by a tab, and a newline
\* followed by a word.
SpanTexts == {<<" ">>, <<"a">>, <<"-", "\t">>, <<"\n", "b">>}

\* The spans of the renderer: a text and the font name, size and flags.
SpanPool ==
    {[text |-> t, font |-> "Helvetica", size |-> f[1], flags |-> f[2]] :
        t \in SpanTexts, f \in {<<1400, 0>>, <<1600, 16>>}}

\* The text blocks of at most MaxSpans spans on one line, all at one place.
ExtractBlocks ==
    {[bbox |-> <<7200004, 10000000, 30000000, 12000006>>, lines |-> <<[spans |-> ss]>>] :
        ss \in UNION {[1..n -> SpanPool] : n \in 0..MaxSpans}}

\* What follows the blocks of the page: no image and no table, or one image
\* and one table of two rows with a None cell.
ExtractExtras ==
    {[images |-> <<>>, tables |-> <<>>],
     [images |-> <<<<7200000, 20000000, 30000000, 40000000>>>>,
      tables |-> <<[bbox |-> <<7200000, 50000000, 30000000, 60000000>>,
                    cells |-> << <<<<"a">>, NoneCell>>, <<<<"b">>, <<"c">>>> >>]>>]}

\* The block lists of the page: at most MaxBlocks blocks.
ExtractBlockLists == UNION {[1..n -> ExtractBlocks] : n \in 0..MaxBlocks}

InitExtract ==
    /\ pc = "call"
    /\ \E bs \in ExtractBlockLists, ex \in ExtractExtras :
          doc = <<[blocks |-> bs, images |-> ex.images, tables |-> ex.tables]>>
    /\ elements = <<>>
    /\ calls = <<>>
    /\ raised = "none"
    /\ text = <<>>
    /\ font_info = [name |-> "Helvetica", size |-> 1000, flags |-> 0]
    /\ element_type = "none"
    /\ total_pages = 1
    /\ stats = NoStats
    /\ db = EmptyDb
    /\ fetched = NothingFetched

\* One call of _extract_page_elements(doc[0], 1).
ExtractPageElements ==
    /\ pc = "call"
    /\ elements' = extract_page_elements(doc[1], 1)
    /\ calls' = classified_texts(doc[1].blocks)
    /\ pc' = "return"
    /\ UNCHANGED <<text, font_info, element_type, total_pages, stats, raised, doc, db, fetched>>

NextExtract == ExtractPageElements

SpecExtract == InitExtract /\ [][NextExtract]_vars

-----------------------------------------------------------------------------
(* Properties of _extract_page_elements, checked under SpecExtract. *)

\* The text elements of the extracted list: those that are no image and no table.
TextPositions == {k \in 1..Len(elements) : elements[k].element_type \notin {"image", "table"}}

\* The block holds a character that is not whitespace.
HasVisibleText(block) ==
    /\ "lines" \in DOMAIN block
    /\ \E l \in 1..Len(block.lines) :
         \E n \in 1..Len(block.lines[l].spans) :
            \E i \in 1..Len(block.lines[l].spans[n].text) :
                block.lines[l].spans[n].text[i] \notin Whitespace

\* s holds a character that is not whitespace: its trimmed form is not empty.
NonEmptyTrimmed(s) == \E i \in 1..Len(s) : s[i] \notin Whitespace

\* s with every newline and every tab replaced by one space.
WithSpaces(s) == [i \in 1..Len(s) |-> IF s[i] \in {"\n", "\t"} THEN " " ELSE s[i]]

\* C14: the stored content of the k-th text element is the trimmed text of the
\* k-th classified block with every newline and every tab replaced by a single
\* space: the same length, no newline and no tab.
StoredContentHasSpacesForTabs ==
    pc = "return"
        => \A k \in 1..Len(calls) :
              /\ elements[k].content = WithSpaces(strip(calls[k]))
              /\ Len(elements[k].content) = Len(strip(calls[k]))
              /\ \A i \in 1..Len(elements[k].content) :
                    elements[k].content[i] \notin {"\n", "\t"}

\* C17: a block with no visible text yields no element and no call of
\* classify_items; every text element has non-empty content and every
\* classified text has a non-empty trimmed form.
BlankBlocksAreSkipped ==
    pc = "return"
        => /\ Cardinality(TextPositions)
                = Cardinality({b \in 1..Len(doc[1].blocks) : HasVisibleText(doc[1].blocks[b])})
           /\ Len(calls) = Cardinality(TextPositions)
           /\ \A k \in TextPositions : elements[k].content # <<>>
           /\ \A c \in 1..Len(calls) : NonEmptyTrimmed(calls[c])

\* C17 witness: a page whose only block is two whitespace spans, followed by an
\* image and a table, yields the image and the table and no classifier call.
BlankBlockLeftOut ==
    /\ pc = "return"
    /\ Len(doc[1].blocks) = 1
    /\ text_content(block_spans(doc[1].blocks[1].lines)) = <<" ", " ">>
    /\ Len(elements) = 2
    /\ TextPositions = {}
    /\ calls = <<>>

\* C18: the type of a text element is the type classify_items gives to its
\* stored content with the same font.
TypeAgreesWithStoredContent ==
    pc = "return"
        => \A k \in 1..Len(calls) :
              /\ elements[k].element_type
                    = classify_items(calls[k], elements[k].font_info).value
              /\ classify_items(calls[k], elements[k].font_info).value
                    = classify_items(elements[k].content, elements[k].font_info).value

-----------------------------------------------------------------------------
(* extract_structure and DocumentStorage.                                  *)
(*                                                                         *)
(* A table is the list of its rows in rowid order.  A document_uuid, a     *)
(* fresh uuid4, is the number of the document it was drawn for.  A value   *)
(* of a REAL column is the double that was bound to it.  A JSON object is  *)
(* the list of its members, each a key, always a string, and a value.  A   *)
(* dict read from JSON has the keys [str |-> k]; the int p as a dict key   *)
(* is [int |-> p], which equals none of them.                              *)

\* The loop of extract_structure over range(len(doc)): the elements of the
\* pages 1..n of d, in page order.
RECURSIVE extract_pages(_, _)
extract_pages(d, n) ==
    IF n = 0 THEN <<>>
    ELSE extract_pages(d, n - 1) \o extract_page_elements(d[n], n)

\* The texts handed to classify_items while the pages 1..n of d are extracted.
RECURSIVE extract_calls(_, _)
extract_calls(d, n) ==
    IF n = 0 THEN <<>>
    ELSE extract_calls(d, n - 1) \o classified_texts(d[n].blocks)

\* extract_structure(pdf_path) for an existing file that holds d: the elements
\* and the statistics, or the exception of _generate_statistics.
extract_structure(d) ==
    LET elems == extract_pages(d, Len(d))
        generated == generate_statistics(Len(d), elems)
    IN  [raised |-> generated.raised, elements |-> elems, stats |-> generated.value]

\* The keys of the dict f in ascending order: the insertion order of
\* section_distribution, whose keys are met page after page.
RECURSIVE ascending(_)
ascending(S) ==
    IF S = {} THEN <<>>
    ELSE LET least == CHOOSE x \in S : \A y \in S : x <= y
         IN  <<least>> \o ascending(S \ {least})

\* json.dumps(f) of a dict with int keys and int values: every key is written
\* as the JSON string of its digits.
json_dumps(f) ==
    [i \in 1..Cardinality(DOMAIN f) |->
        [key |-> str(ascending(DOMAIN f)[i]), value |-> f[ascending(DOMAIN f)[i]]]]

\* json.loads(members): a dict whose keys are the member keys, as str.
json_loads(members) ==
    [k \in {[str |-> members[i].key] : i \in 1..Len(members)} |->
        LET i == CHOOSE j \in 1..Len(members) : members[j].key = k.str
        IN  members[i].value]

\* The rows that save_document inserts into elements for the document
\* document_id, after the last_id rows the table holds.
element_rows(elems, document_id, last_id) ==
    [k \in 1..Len(elems) |->
        [id |-> last_id + k,
         document_id |-> document_id,
         element_type |-> elems[k].element_type,
         content |-> elems[k].content,
         page_number |-> elems[k].page_number,
         position_x0 |-> elems[k].position.x0,
         position_y0 |-> elems[k].position.y0,
         position_x1 |-> elems[k].position.x1,
         position_y1 |-> elems[k].position.y1]]

\* save_document(pdf_path, elements, stats, original_filename): the database
\* after the three inserts and the commit.
save_document(database, elems, st, filename) ==
    LET document_id == Len(database.documents) + 1
    IN  [documents |->
            Append(database.documents,
                   [id |-> document_id, document_uuid |-> document_id, filename |-> filename]),
         elements |->
            database.elements \o element_rows(elems, document_id, Len(database.elements)),
         document_statistics |->
            Append(database.document_statistics,
                   [id |-> Len(database.document_statistics) + 1,
                    document_id |-> document_id,
                    title_count |-> st.title_count,
                    section_count |-> st.section_count,
                    table_count |-> st.table_count,
                    image_count |-> st.image_count,
                    avg_text_density_per_page |-> st.avg_text_density_per_page,
                    avg_hierarchical_depth |-> st.avg_hierarchical_depth,
                    avg_paragraph_length |-> st.avg_paragraph_length,
                    section_distribution |-> json_dumps(st.section_distribution)])]

\* get_document_by_uuid(document_uuid): the documents rows with that uuid.
get_document_by_uuid(database, document_uuid) ==
    SelectSeq(database.documents, LAMBDA d : d.document_uuid = document_uuid)

\* get_document_elements without WHERE d.document_uuid = ?: the rows of every
\* document, filtered by type and page.
matching_rows_of_any_document(database, document_uuid, type_filter, page_filter) ==
    SelectSeq(database.elements,
              LAMBDA e :
                /\ type_filter = "None" \/ e.element_type = type_filter
                /\ page_filter = 0 \/ e.page_number = page_filter)

\* The WHERE clause of get_document_elements: the rows of elements joined to
\* the document with the uuid, filtered by type and page when the argument is
\* truthy ("None" stands for None, 0 is falsy).
matching_rows(database, document_uuid, type_filter, page_filter) ==
    SelectSeq(database.elements,
              LAMBDA e :
                /\ \E i \in 1..Len(database.documents) :
                      /\ database.documents[i].id = e.document_id
                      /\ database.documents[i].document_uuid = document_uuid
                /\ type_filter = "None" \/ e.element_type = type_filter
                /\ page_filter = 0 \/ e.page_number = page_filter)

\* ORDER BY e.page_number, e.position_y0 DESC: a comes strictly before b.
sorts_before(a, b) ==
    \/ a.page_number < b.page_number
    \/ a.page_number = b.page_number /\ a.position_y0 > b.position_y0

\* The orders in which the rows at the positions S of m can be returned: SQL
\* leaves the order of rows with equal sort keys open.
RECURSIVE orderings(_, _)
orderings(m, S) ==
    IF S = {} THEN {<<>>}
    ELSE UNION {{<<m[i]>> \o rest : rest \in orderings(m, S \ {i})} :
                    i \in {j \in S : \A k \in S : ~sorts_before(m[k], m[j])}}

\* get_document_elements(document_uuid, element_type, page_number): the row
\* lists it can return.
get_document_elements(database, document_uuid, type_filter, page_filter) ==
    LET m == matching_rows(database, document_uuid, type_filter, page_filter)
    IN  orderings(m, 1..Len(m))

\* get_document_statistics(document_uuid): {} with no row, else the row as a
\* dict with section_distribution parsed from its JSON text (a non-empty
\* string, hence truthy, even for the empty dict).
get_document_statistics(database, document_uuid) ==
    LET found == SelectSeq(database.document_statistics,
                           LAMBDA r : \E i \in 1..Len(database.documents) :
                                         /\ database.documents[i].id = r.document_id
                                         /\ database.documents[i].document_uuid = document_uuid)
    IN  IF found = <<>> THEN <<>>
        ELSE [title_count |-> found[1].title_count,
              section_count |-> found[1].section_count,
              table_count |-> found[1].table_count,
              image_count |-> found[1].image_count,
              avg_text_density_per_page |-> found[1].avg_text_density_per_page,
              avg_hierarchical_depth |-> found[1].avg_hierarchical_depth,
              avg_paragraph_length |-> found[1].avg_paragraph_length,
              section_distribution |-> json_loads(found[1].section_distribution)]

-----------------------------------------------------------------------------
(* The service of main.py over one database: a document is uploaded, and   *)
(* its elements and statistics are read back.                              *)

\* The pages of an uploaded document are at most MaxDocPages, and the document
\* is uploaded at most MaxUploads times.
MaxDocPages == 2
MaxUploads == 2

\* A text block of one span at the height y0 (the fifth decimal of the
\* coordinates is rounded away by the extraction).
SampleBlock(t, size, flags, y0) ==
    [bbox |-> <<7200004, y0 + 4, 30000000, y0 + 2000006>>,
     lines |-> <<[spans |-> <<[text |-> t, font |-> "Helvetica",
                               size |-> size, flags |-> flags]>>]>>]

SectionBlock(y0) == SampleBlock(<<"a">>, 1000, 0, y0)
TitleBlock(y0) == SampleBlock(<<"b">>, 1600, 16, y0)
BlankBlock(y0) == SampleBlock(<<" ">>, 1000, 0, y0)

\* An image block of get_text("dict"): it has no "lines".
ImageBlock(y0) == [bbox |-> <<7200000, y0, 30000000, y0 + 2000000>>]

SampleRect(y0) == <<7200000, y0, 30000000, y0 + 2000000>>
SampleTable(y0) == [bbox |-> SampleRect(y0), cells |-> << <<<<"a">>, NoneCell>> >>]

\* Pages: blocks laid out top to bottom (y0 grows down the page); blocks
\* emitted bottom to top, then an image above them; a blank block, an image
\* block and a section beside an image at the same height, over a table; and
\* a page with nothing on it.
SamplePages ==
    {[blocks |-> <<SectionBlock(10000000), TitleBlock(20000000)>>,
      images |-> <<>>, tables |-> <<>>],
     [blocks |-> <<TitleBlock(20000000), SectionBlock(10000000)>>,
      images |-> <<SampleRect(5000000)>>, tables |-> <<>>],
     [blocks |-> <<BlankBlock(30000000), ImageBlock(40000000), SectionBlock(10000000)>>,
      images |-> <<SampleRect(10000000)>>, tables |-> <<SampleTable(50000000)>>],
     [blocks |-> <<>>, images |-> <<>>, tables |-> <<>>]}

SampleDocuments == UNION {[1..n -> SamplePages] : n \in 0..MaxDocPages}

\* The names under which the file is uploaded.
Filenames == {"a.pdf", "a.txt"}

\* The arguments of the read endpoints: the uuids of the documents that can
\* exist, the element_type filter and the page_number filter (0 for None).
Uuids == 1..MaxUploads
TypeFilters == {"None", "section", "image"}
PageFilters == 0..MaxDocPages

InitDocument ==
    /\ pc = "serve"
    /\ doc \in SampleDocuments
    /\ db = EmptyDb
    /\ fetched = NothingFetched
    /\ elements = <<>>
    /\ stats = NoStats
    /\ calls = <<>>
    /\ raised = "none"
    /\ text = <<>>
    /\ font_info = [name |-> "Helvetica", size |-> 1000, flags |-> 0]
    /\ element_type = "none"
    /\ total_pages = Len(doc)

\* POST /documents/upload: a file that is not a .pdf is refused; otherwise the
\* structure is extracted and saved, and an exception of either step becomes
\* the status 500 with nothing saved.
UploadDocument ==
    /\ pc = "serve"
    /\ Len(db.documents) < MaxUploads
    /\ \E filename \in Filenames :
          LET extracted == extract_structure(doc)
          IN  IF filename # "a.pdf"
              THEN /\ raised' = "HTTPException 400"
                   /\ UNCHANGED <<elements, stats, calls, db>>
              ELSE IF extracted.raised # "none"
              THEN /\ raised' = "HTTPException 500"
                   /\ calls' = extract_calls(doc, Len(doc))
                   /\ UNCHANGED <<elements, stats, db>>
              ELSE /\ raised' = "none"
                   /\ elements' = extracted.elements
                   /\ stats' = extracted.stats
                   /\ calls' = extract_calls(doc, Len(doc))
                   /\ db' = save_document(db, extracted.elements, extracted.stats, filename)
    /\ UNCHANGED <<pc, text, font_info, element_type, total_pages, doc, fetched>>

\* GET /documents/{document_uuid}/elements: 404 for an unknown uuid, else the
\* rows of get_document_elements.
GetDocumentElements ==
    /\ pc = "serve"
    /\ \E document_uuid \in Uuids, type_filter \in TypeFilters, page_filter \in PageFilters :
          IF get_document_by_uuid(db, document_uuid) = <<>>
          THEN /\ raised' = "HTTPException 404"
               /\ UNCHANGED fetched
          ELSE /\ raised' = "none"
               /\ \E rows \in get_document_elements(db, document_uuid, type_filter, page_filter) :
                     fetched' = [query |-> "elements",
                                 document_uuid |-> document_uuid,
                                 element_type |-> type_filter,
                                 page_number |-> page_filter,
                                 elements |-> rows]
    /\ UNCHANGED <<pc, text, font_info, element_type, total_pages, elements, stats,
                   doc, calls, db>>

\* GET /documents/{document_uuid}/statistics: 404 for an unknown uuid, else
\* the dict of get_document_statistics.
GetDocumentStats ==
    /\ pc = "serve"
    /\ \E document_uuid \in Uuids :
          IF get_document_by_uuid(db, document_uuid) = <<>>
          THEN /\ raised' = "HTTPException 404"
               /\ UNCHANGED fetched
          ELSE /\ raised' = "none"
               /\ fetched' = [query |-> "statistics",
                              document_uuid |-> document_uuid,
                              statistics |-> get_document_statistics(db, document_uuid)]
    /\ UNCHANGED <<pc, text, font_info, element_type, total_pages, elements, stats,
                   doc, calls, db>>

NextDocument ==
    \/ UploadDocument
    \/ GetDocumentElements
    \/ GetDocumentStats

SpecDocument == InitDocument /\ [][NextDocument]_vars

-----------------------------------------------------------------------------
(* Properties of the stored document, checked under SpecDocument. *)

\* What an element and a row say about the same primitive.
ElementFields(e) ==
    [element_type |-> e.element_type, content |-> e.content,
     page_number |-> e.page_number, position |-> e.position]

RowFields(r) ==
    [element_type |-> r.element_type, content |-> r.content,
     page_number |-> r.page_number,
     position |-> [x0 |-> r.position_x0, y0 |-> r.position_y0,
                   x1 |-> r.position_x1, y1 |-> r.position_y1]]

OnPage(s, p) == SelectSeq(s, LAMBDA e : e.page_number = p)

FieldsOf(s) == [i \in 1..Len(s) |-> ElementFields(s[i])]
FieldsOfRows(s) == [i \in 1..Len(s) |-> RowFields(s[i])]

\* A read of all the elements of one document has been answered.
FetchedAllElements ==
    /\ fetched.query = "elements"
    /\ fetched.element_type = "None"
    /\ fetched.page_number = 0

\* The place of an element within its page: text blocks, images, tables.
EmissionRank(e) ==
    IF e.element_type = "image" THEN 1 ELSE IF e.element_type = "table" THEN 2 ELSE 0

\* The extracted elements are in page order, and within a page the text
\* blocks come first, then the images, then the tables.
ExtractionKeepsEmissionOrder ==
    \A i, j \in 1..Len(elements) :
        i < j => \/ elements[i].page_number < elements[j].page_number
                 \/ /\ elements[i].page_number = elements[j].page_number
                    /\ EmissionRank(elements[i]) <= EmissionRank(elements[j])

\* C13: the elements are in page order and, within a page, in the order text
\* blocks, images, tables; and the elements read back from storage for a
\* document are, page by page, in the order in which extraction produced them.
EmissionOrderIsPreserved ==
    /\ ExtractionKeepsEmissionOrder
    /\ FetchedAllElements =>
          \A p \in 1..Len(doc) :
              FieldsOfRows(OnPage(fetched.elements, p)) = FieldsOf(OnPage(elements, p))

\* C15: after the statistics are saved and read back, every integer page
\* number that was a key of section_distribution is still a key, with the
\* same count.
SectionKeysStayNumbers ==
    fetched.query = "statistics" =>
        \A p \in DOMAIN stats.section_distribution :
            /\ [int |-> p] \in DOMAIN fetched.statistics.section_distribution
            /\ fetched.statistics.section_distribution[[int |-> p]]
                   = stats.section_distribution[p]

\* C16: an unfiltered read of a document returns as many rows as elements were
\* saved, and the row inserted for each element carries the element's type,
\* page_number and four position coordinates.
RowsCarryTheSavedElements ==
    FetchedAllElements =>
        /\ Len(fetched.elements) = Len(elements)
        /\ \A k \in 1..Len(elements) :
              \E i \in 1..Len(fetched.elements) :
                  LET r == fetched.elements[i]
                  IN  /\ r.id = (fetched.document_uuid - 1) * Len(elements) + k
                      /\ r.element_type = elements[k].element_type
                      /\ r.page_number = elements[k].page_number
                      /\ r.position_x0 = elements[k].position.x0
                      /\ r.position_y0 = elements[k].position.y0
                      /\ r.position_x1 = elements[k].position.x1
                      /\ r.position_y1 = elements[k].position.y1

\* The second of two stored copies of a document is read back, in an order
\* that is not the order of its rows.
SecondDocumentReadBack ==
    /\ FetchedAllElements
    /\ fetched.document_uuid = 2
    /\ Len(fetched.elements) >= 4
    /\ \E i \in 1..(Len(fetched.elements) - 1) :
          fetched.elements[i].id > fetched.elements[i + 1].id

====
